---- MODULE Spec2Model ----
(***************************************************************************)
(* A model of tau's core (src/src/tau/core.py): the Network propagation    *)
(* engine, MutableSignal, the historical scheduler and the real-time       *)
(* scheduler.  Each part has its own specification over its own variables; *)
(* the variables of the other parts stay at their initial values.          *)
(***************************************************************************)
EXTENDS Integers, Sequences, FiniteSets, TLC

\* ------------------------------------------------------------------ bounds
\* Number of Event objects a client creates (identities 1..NumEvents).
NumEvents == 3
\* Number of Network operations a behaviour performs.
MaxNetOps == 4
\* Number of set_value calls, and of on_activate calls, made on the MutableSignal
MaxSigCalls == 4
\* Values handed to set_value are 1..NumValues
NumValues == 2
\* The historical scheduler's window [HistStart, HistEnd], in milliseconds
HistStart == 1
HistEnd == 3
\* Offsets handed to the offset-relative calls are -MaxOffset..MaxOffset
MaxOffset == 1
\* Number of schedule_* calls made on the historical scheduler
MaxSched == 3
\* The real-time clock runs over 0..MaxClock milliseconds
MaxClock == 1
\* Number of schedule_* calls made on the real-time scheduler
MaxRtCalls == 2
\* A RepeatingTimer's interval is 1..MaxHalfMillis half milliseconds
MaxHalfMillis == 3
\* Events created on the historical scheduler in a run with a RepeatingTimer
MaxCycle == 6
\* timedelta counts microseconds, the schedulers milliseconds
UsPerMilli == 1000
\* The values fed through From are -MaxTenth..MaxTenth tenths (1.5 is 15)
MaxTenth == 15
\* Longest list handed to From
MaxList == 2
\* SignalGenerators registered with add_generator
MaxGens == 2
\* schedule_update calls on one MutableSignal
MaxUpd == 2
\* Schedulers constructed, and calls made on their Networks
MaxSchedulers == 2
MaxShareOps == 2
\* Tenths in a unit: round() takes a value in tenths to whole units
TenthsPerUnit == 10

Events == 1..NumEvents

VARIABLES
    \* ---- Network (core.py 80-129)
    node_id_map,        \* dict Event -> node id
    current_id,         \* last id handed out
    graph_nodes,        \* Graph: node id -> Event object
    graph_edges,        \* Graph: node id -> dependents' ids, in edge insertion order
    activation_flags,   \* dict Event -> bool
    calls,              \* on_activate invocations of the last activate(), in call order
    net_op,             \* the last Network operation and how it ended
    net_ops,            \* number of Network operations performed
    net_pre,            \* the last operation against the state it started from
    \* ---- MutableSignal (core.py 33-77)
    sig_value,          \* Signal.value
    sig_modified,       \* Signal.modified
    sig_op,             \* the last call made on the signal, and what it returned
    sig_pending,        \* set_value calls since the last on_activate that returned true
    sig_n_sets,         \* set_value calls so far
    sig_n_acts,         \* on_activate calls so far
    sig_n_true,         \* on_activate calls so far that returned true
    \* ---- HistoricNetworkScheduler (core.py 316-452)
    h_queue,            \* event_queue: the HistoricalEvents waiting
    h_now,              \* now
    h_cycle,            \* cycle, the insertion counter
    h_pc,               \* where run() is: "idle" before it, "running", "done" after it
    h_log,              \* the actions executed, in order, with get_time() as they saw it
    h_sched,            \* the schedule_* calls made, in order (call c created cycle c)
    h_gens,             \* generators, the list add_generator appends to
    h_gen_log,          \* the generators whose generate() run() has called, in order
    \* ---- RepeatingTimer on the historical scheduler (signal.py 300-312)
    t_interval,         \* the timer's interval in microseconds; 0 before the timer exists
    t_cycles,           \* the cycles of the events that activate the timer
    t_fired,            \* get_time() at each activation of the timer's dependents
    \* ---- From -> Map(round) -> Scan and From -> Filter(x >= 0) -> Do (signal.py)
    f_pc,               \* "new", or "built" once the operators are constructed
    f_list,             \* the list handed to From
    f_pending,          \* the updates From scheduled and not yet executed, in order
    f_from,             \* the From signal: value, valid (value is not None), modified
    f_map,              \* the Map signal
    f_scan,             \* the Scan signal, with prev_value
    f_filter,           \* the Filter signal
    f_trace,            \* per executed update: its value and which operators fired
    \* ---- schedule_update / schedule_update_at (core.py 273-289, 402-426)
    u_sig,              \* the MutableSignal: value and modified
    u_env,              \* what the thunk would return if it were called now
    u_pending,          \* the set_and_activate closures the scheduler holds
    u_log,              \* the closures the scheduler ran, in order
    u_op,               \* the last call, and the signal as it was before it
    \* ---- the network argument of the schedulers (core.py 171-176, 226, 361)
    s_scheds,           \* the schedulers constructed: class, own argument or default, network
    s_nets,             \* the Network objects: ids, counter, graph and flags of each
    s_op,               \* the last call through get_network(), and s_nets before it
    \* ---- RealtimeNetworkScheduler (core.py 218-304)
    rt_clock,           \* time.time(), in milliseconds
    rt_timers,          \* the asyncio loop's handles: producer_callbacks armed, with due time
    rt_q,               \* q, the queue.Queue of callbacks
    rt_pc,              \* the XQ-Thread: "get" (in exec_q.get()), "run" (in runnable()) or "stopped"
    rt_active,          \* the callbacks executing right now, each with the thread running it
    rt_done,            \* the callbacks that ran to completion, in order
    rt_calls,           \* the schedule_* calls made, in order (call c carries callback c)
    rt_raised,          \* the callbacks whose run ended in an exception
    rt_running,         \* consumer.running
    rt_loop,            \* the asyncio loop: "running" or "stopped"
    rt_mutating,        \* the threads inside attach, connect or disconnect of the Network
    rt_unseen           \* callbacks whose timer the loop, asleep in select(), has not seen

net_vars == <<net_pre, node_id_map, current_id, graph_nodes, graph_edges, activation_flags,
              calls, net_op, net_ops>>

sig_vars == <<sig_value, sig_modified, sig_op, sig_pending, sig_n_sets, sig_n_acts,
              sig_n_true>>

hist_vars == <<h_queue, h_now, h_cycle, h_pc, h_log, h_sched>>

gen_vars == <<h_gens, h_gen_log>>

rt_vars == <<rt_clock, rt_timers, rt_q, rt_pc, rt_active, rt_done, rt_calls,
             rt_raised, rt_running, rt_loop, rt_mutating, rt_unseen>>

timer_vars == <<t_interval, t_cycles, t_fired>>

flow_vars == <<f_pc, f_list, f_pending, f_from, f_map, f_scan, f_filter, f_trace>>

upd_vars == <<u_sig, u_env, u_pending, u_log, u_op>>

share_vars == <<s_scheds, s_nets, s_op>>

vars == <<net_vars, sig_vars, hist_vars, gen_vars, rt_vars, timer_vars, flow_vars, upd_vars,
          share_vars>>

\* ------------------------------------------------------------ dict helpers
\* d[k] = v on a Python dict
DictSet(d, k, v) == [x \in (DOMAIN d) \cup {k} |-> IF x = k THEN v ELSE d[x]]
\* del d[k] on a Python dict (the caller checks k \in DOMAIN d: KeyError otherwise)
DictDel(d, k) == [x \in (DOMAIN d) \ {k} |-> d[x]]
EmptyDict == [x \in {} |-> FALSE]

\* Elements of a sequence, and a sequence without one of its values
SeqRange(s) == {s[i] : i \in 1..Len(s)}
SeqRemove(s, v) == SelectSeq(s, LAMBDA x : x # v)

\* ----------------------------------------------------------------- Network
\* on_activate results of the Events that are not MutableSignals (the tests use
\* Mock(spec=Event) with a fixed return_value)
Rets == [DOMAIN node_id_map -> BOOLEAN]

\* Event objects have no content the Network reads, only an identity, so they
\* are named in the order the Network first meets them: an operation is given
\* Events it has met or the next unmet ones.
Known(evt) == evt <= current_id + 1
Known2(evt1, evt2) ==
    /\ Known(evt1)
    /\ evt2 <= (IF evt1 > current_id THEN evt1 ELSE current_id) + 1

\* What the last operation was: its name, whether it returned (ok) or raised
\* KeyError, and its arguments
NetOp(op, ok, a, b) == [op |-> op, ok |-> ok, a |-> a, b |-> b]

NetInit ==
    /\ node_id_map = EmptyDict
    /\ current_id = 0
    /\ graph_nodes = EmptyDict
    /\ graph_edges = EmptyDict
    /\ activation_flags = EmptyDict
    /\ calls = <<>>
    /\ net_op = NetOp("init", TRUE, 0, 0)
    /\ net_ops = 0
    /\ net_pre = [changed |-> FALSE, had_edge |-> FALSE, clean |-> TRUE]

\* attach without the early return: an attached Event is given a fresh id
attach_again(tab, evt) ==
    LET node_id == tab.cur + 1 IN
    [ids   |-> DictSet(tab.ids, evt, node_id),
     cur   |-> node_id,
     nodes |-> DictSet(tab.nodes, node_id, evt),
     edges |-> DictSet(tab.edges, node_id, <<>>)]

\* Network.attach as a function of the tables: the tables after attach(evt)
attach(tab, evt) ==
    IF evt \in DOMAIN tab.ids
    THEN tab
    ELSE LET node_id == tab.cur + 1 IN
         [ids   |-> DictSet(tab.ids, evt, node_id),
          cur   |-> node_id,
          nodes |-> DictSet(tab.nodes, node_id, evt),
          edges |-> DictSet(tab.edges, node_id, <<>>)]

Tables == [ids |-> node_id_map, cur |-> current_id, nodes |-> graph_nodes,
           edges |-> graph_edges]

\* Graph.add_edge: a new edge goes last; an existing edge keeps its place
add_edge(edges, n1, n2) ==
    IF n2 \in SeqRange(edges[n1]) THEN edges
    ELSE [edges EXCEPT ![n1] = Append(@, n2)]

\* Graph.del_edge
del_edge(edges, n1, n2) == [edges EXCEPT ![n1] = SeqRemove(@, n2)]

\* connect with the edge drawn from the dependent to the producer
connect_edge_reversed(t, evt1, evt2) ==
    add_edge(t.edges, t.ids[evt2], t.ids[evt1])

\* The last statement of connect: the edge producer -> dependent
connect_edge(t, evt1, evt2) == add_edge(t.edges, t.ids[evt1], t.ids[evt2])

Attach(evt) ==
    LET t == attach(Tables, evt) IN
    /\ net_ops < MaxNetOps
    /\ node_id_map' = t.ids
    /\ current_id' = t.cur
    /\ graph_nodes' = t.nodes
    /\ graph_edges' = t.edges
    /\ net_op' = NetOp("attach", TRUE, evt, 0)
    /\ net_ops' = net_ops + 1
    /\ UNCHANGED <<activation_flags, calls>>

\* Network.connect(evt1, evt2)
Connect(evt1, evt2) ==
    LET flags1 == DictSet(activation_flags, evt1, FALSE)
        flags2 == DictSet(flags1, evt2, FALSE)
        t1 == attach(Tables, evt1)
        t2 == attach(t1, evt2)
    IN
    /\ net_ops < MaxNetOps
    /\ activation_flags' = flags2
    /\ node_id_map' = t2.ids
    /\ current_id' = t2.cur
    /\ graph_nodes' = t2.nodes
    /\ graph_edges' = connect_edge(t2, evt1, evt2)
    /\ net_op' = NetOp("connect", TRUE, evt1, evt2)
    /\ net_ops' = net_ops + 1
    /\ UNCHANGED calls

\* Network.disconnect(evt1, evt2): each statement may raise KeyError, and what
\* the statements before it did stays done
Disconnect(evt1, evt2) ==
    /\ net_ops < MaxNetOps
    /\ net_ops' = net_ops + 1
    /\ UNCHANGED <<node_id_map, current_id, graph_nodes, calls>>
    /\ IF evt1 \notin DOMAIN activation_flags
       THEN /\ net_op' = NetOp("disconnect", FALSE, evt1, evt2)
            /\ UNCHANGED <<activation_flags, graph_edges>>
       ELSE LET flags1 == DictDel(activation_flags, evt1) IN
            IF evt2 \notin DOMAIN flags1
            THEN /\ net_op' = NetOp("disconnect", FALSE, evt1, evt2)
                 /\ activation_flags' = flags1
                 /\ UNCHANGED graph_edges
            ELSE /\ activation_flags' = DictDel(flags1, evt2)
                 /\ IF evt1 \in DOMAIN node_id_map /\ evt2 \in DOMAIN node_id_map
                    THEN /\ graph_edges' = del_edge(graph_edges, node_id_map[evt1],
                                                    node_id_map[evt2])
                         /\ net_op' = NetOp("disconnect", TRUE, evt1, evt2)
                    ELSE /\ net_op' = NetOp("disconnect", FALSE, evt1, evt2)
                         /\ UNCHANGED graph_edges

\* A has_activated that answers False for an event without a flag entry
has_activated_default(flags, evt) ==
    [ok |-> TRUE, value |-> evt \in DOMAIN flags /\ flags[evt]]

\* self.activation_flags[evt]: the flag, or KeyError (ok = FALSE) when evt
\* has no flag entry
has_activated(flags, evt) ==
    [ok |-> evt \in DOMAIN flags, value |-> evt \in DOMAIN flags /\ flags[evt]]

\* Network.has_activated(evt): a read
HasActivated(evt) ==
    /\ net_ops < MaxNetOps
    /\ net_ops' = net_ops + 1
    /\ LET r == has_activated(activation_flags, evt) IN
       net_op' = NetOp("has_activated", r.ok, evt, IF r.value THEN 1 ELSE 0)
    /\ UNCHANGED <<node_id_map, current_id, graph_nodes, graph_edges,
                   activation_flags, calls>>

\* One on_activate invocation, as recorded in calls
\* by is the Event whose dependents were being asked (0 for the root)
Call(evt, ret, by) == [evt |-> evt, ret |-> ret, by |-> by]

\* A traversal that asks a node's dependents last edge first
nodes_from_reversed(n1) ==
    [i \in 1..Len(graph_edges[n1]) |-> graph_edges[n1][Len(graph_edges[n1]) + 1 - i]]

\* graph.nodes(from_node=n1): the dependents of n1, in edge insertion order
nodes_from(n1) == graph_edges[n1]

\* A slip in scan_nodes: the on_activate result is dropped and the scan goes on
scan_nodes_ignores_result(node_id, ret) == TRUE

\* A slip in scan_nodes: no return statement, so depth_scan is handed None
scan_nodes_returns_none(node_id, ret) == FALSE

\* scan_nodes(node_id) of Network.activate: the value handed back to depth_scan
\* is the Event's on_activate result
scan_nodes(node_id, ret) == ret[graph_nodes[node_id]]

\* Graph.depth_scan(start, criteria) of the graph package the Network is built
\* on.  criteria is scan_nodes; every call of it is one on_activate invocation.
\* The body of "for n2 in graph.nodes(from_node=n1)": a dependent already in
\* visited is skipped, the others are asked; those answering true are marked
\* visited and pushed.
RECURSIVE scan_dependents(_, _, _, _, _, _)
scan_dependents(n1, deps, visited, q, log, ret) ==
    IF deps = <<>>
    THEN [visited |-> visited, q |-> q, log |-> log]
    ELSE LET n2 == Head(deps)
             log2 == Append(log, Call(graph_nodes[n2], ret[graph_nodes[n2]],
                                      graph_nodes[n1]))
         IN  IF n2 \in visited
             THEN scan_dependents(n1, Tail(deps), visited, q, log, ret)
             ELSE IF ~scan_nodes(n2, ret)
             THEN scan_dependents(n1, Tail(deps), visited, q, log2, ret)
             ELSE scan_dependents(n1, Tail(deps), visited \cup {n2}, Append(q, n2),
                                  log2, ret)

\* "while q: n1 = q.pop()": the last node pushed is expanded first
RECURSIVE scan_loop(_, _, _, _)
scan_loop(visited, q, log, ret) ==
    IF q = <<>>
    THEN log
    ELSE LET n1 == q[Len(q)]
             r == scan_dependents(n1, nodes_from(n1), visited, SubSeq(q, 1, Len(q) - 1),
                                  log, ret)
         IN  scan_loop(r.visited, r.q, r.log, ret)

depth_scan(start, ret) ==
    LET log1 == <<Call(graph_nodes[start], ret[graph_nodes[start]], 0)>> IN
    IF ~scan_nodes(start, ret)
    THEN log1
    ELSE scan_loop({start}, <<start>>, log1, ret)

\* An activate that keeps the flags of the cycle before
clear_activation_flags_keeps(flags) == flags

\* Network.__clear_activation_flags
clear_activation_flags(flags) == [e \in DOMAIN flags |-> FALSE]

\* scan_nodes sets the flag of every Event it invokes
RECURSIVE mark_activated(_, _)
mark_activated(flags, log) ==
    IF log = <<>> THEN flags
    ELSE mark_activated(DictSet(flags, Head(log).evt, TRUE), Tail(log))

\* Network.activate(evt), with ret the on_activate results of this cycle
Activate(evt, ret) ==
    /\ net_ops < MaxNetOps
    /\ net_ops' = net_ops + 1
    /\ UNCHANGED <<node_id_map, current_id, graph_nodes, graph_edges>>
    /\ IF evt \notin DOMAIN node_id_map
       THEN /\ activation_flags' = clear_activation_flags(activation_flags)
            /\ calls' = <<>>
            /\ net_op' = NetOp("activate", FALSE, evt, 0)
       ELSE LET log == depth_scan(node_id_map[evt], ret) IN
            /\ activation_flags' =
                   mark_activated(clear_activation_flags(activation_flags), log)
            /\ calls' = log
            /\ net_op' = NetOp("activate", TRUE, evt, 0)

\* The tables of the Network
NetTables == <<node_id_map, current_id, graph_nodes, graph_edges, activation_flags>>

\* Recorded with every operation: whether it changed a table of the Network,
\* whether the edge between its two arguments existed when it was called, and
\* whether every operation before it had returned (none had raised) and every
\* disconnect before it had been called for an edge that existed
NetRecord ==
    net_pre' =
        [changed  |-> NetTables' # NetTables,
         clean    |-> /\ net_pre.clean
                      /\ net_op.ok
                      /\ net_op.op = "disconnect" => net_pre.had_edge,
         had_edge |-> /\ net_op'.a \in DOMAIN node_id_map
                      /\ net_op'.b \in DOMAIN node_id_map
                      /\ node_id_map[net_op'.b]
                             \in SeqRange(graph_edges[node_id_map[net_op'.a]])]

\* The Network's operations leave the other objects alone
NetFrame == UNCHANGED <<sig_vars, hist_vars, rt_vars, timer_vars, flow_vars, gen_vars, upd_vars, share_vars>>

NetNext ==
    \/ \E evt \in Events : Known(evt) /\ Attach(evt) /\ NetRecord /\ NetFrame
    \/ \E evt1, evt2 \in Events : Known2(evt1, evt2) /\ Connect(evt1, evt2) /\ NetRecord /\ NetFrame
    \/ \E evt1, evt2 \in Events : Known2(evt1, evt2) /\ Disconnect(evt1, evt2) /\ NetRecord /\ NetFrame
    \/ \E evt \in Events : Known(evt) /\ HasActivated(evt) /\ NetRecord /\ NetFrame
    \/ \E evt \in Events, ret \in Rets : Known(evt) /\ Activate(evt, ret) /\ NetRecord /\ NetFrame

\* ----------------------------------------------------------- MutableSignal
\* initial_value: Any = None
NoneValue == 0
Values == 1..NumValues

SigOp(op, result) == [op |-> op, result |-> result]

SigInit ==
    /\ sig_value = NoneValue
    /\ sig_modified = FALSE
    /\ sig_op = SigOp("init", FALSE)
    /\ sig_pending = 0
    /\ sig_n_sets = 0
    /\ sig_n_acts = 0
    /\ sig_n_true = 0

\* Signal._update(value): the fields after the call
update(value) == [value |-> value, modified |-> TRUE]

\* A slip in on_activate: the flag is not cleared
on_activate_keeps_flag(modified) == [result |-> modified, modified |-> modified]

\* MutableSignal.on_activate: what it returns and the flag it leaves
on_activate(modified) ==
    IF modified
    THEN [result |-> TRUE, modified |-> FALSE]
    ELSE [result |-> FALSE, modified |-> modified]

\* MutableSignal.set_value(value)
SetValue(value) ==
    /\ sig_n_sets < MaxSigCalls
    /\ sig_value' = update(value).value
    /\ sig_modified' = update(value).modified
    /\ sig_op' = SigOp("set_value", FALSE)
    /\ sig_pending' = sig_pending + 1
    /\ sig_n_sets' = sig_n_sets + 1
    /\ UNCHANGED <<sig_n_acts, sig_n_true>>

\* A call of MutableSignal.on_activate
OnActivate ==
    LET r == on_activate(sig_modified) IN
    /\ sig_n_acts < MaxSigCalls
    /\ sig_modified' = r.modified
    /\ sig_op' = SigOp("on_activate", r.result)
    /\ sig_pending' = IF r.result THEN 0 ELSE sig_pending
    /\ sig_n_acts' = sig_n_acts + 1
    /\ sig_n_true' = IF r.result THEN sig_n_true + 1 ELSE sig_n_true
    /\ UNCHANGED <<sig_value, sig_n_sets>>

\* The signal's methods leave the other objects alone
SigFrame == UNCHANGED <<net_vars, hist_vars, rt_vars, timer_vars, flow_vars, gen_vars, upd_vars, share_vars>>

SigNext ==
    \/ \E value \in Values : SetValue(value) /\ SigFrame
    \/ OnActivate /\ SigFrame

\* ------------------------------------------------ HistoricNetworkScheduler
Offsets == (0 - MaxOffset)..MaxOffset
Times == 0..(HistEnd + 1)
\* The offset-relative and the absolute-time scheduling calls
OffsetCalls == {"schedule", "schedule_event", "schedule_update"}
AtCalls == {"schedule_at", "schedule_event_at", "schedule_update_at"}
\* A call and its time argument
SchedCalls == (OffsetCalls \X Offsets) \cup (AtCalls \X Times)

HistoricalEvent(time_millis, cycle) == [time_millis |-> time_millis, cycle |-> cycle]

\* __lt__ with the tie between equal timestamps broken the other way
lt_newest_first(e1, e2) ==
    IF e1.time_millis < e2.time_millis THEN TRUE
    ELSE IF e1.time_millis > e2.time_millis THEN FALSE
    ELSE e1.cycle > e2.cycle

\* HistoricalEvent.__lt__
lt(e1, e2) ==
    IF e1.time_millis < e2.time_millis THEN TRUE
    ELSE IF e1.time_millis > e2.time_millis THEN FALSE
    ELSE e1.cycle < e2.cycle

\* PriorityQueue.get_nowait: the event no other event is less than
get_nowait(q) == CHOOSE e \in q : \A o \in q \ {e} : lt(e, o)

HistInit ==
    /\ h_queue = {}
    /\ h_now = HistStart
    /\ h_cycle = 0
    /\ h_pc = "idle"
    /\ h_log = <<>>
    /\ h_sched = <<>>

\* event_time as the schedule_* methods compute it
event_time(call, arg, now) == IF call \in OffsetCalls THEN now + arg ELSE arg

\* The body shared by the six schedule_* methods: compute event_time, create the
\* event with the next cycle, put it in the queue.  Yields the fields changed;
\* the call is recorded with its arguments, get_time() as the caller saw it (at)
\* and the number of actions whose execution had started (after).
schedule_call(call, arg, q, now, cycle, sched, pc, started) ==
    LET t == event_time(call, arg, now) IN
    [queue |-> q \cup {HistoricalEvent(t, cycle + 1)},
     cycle |-> cycle + 1,
     sched |-> Append(sched, [time |-> t, rel |-> call \in OffsetCalls, arg |-> arg,
                              pre |-> pc = "idle", at |-> now, after |-> started])]

\* A schedule_* call made by the client before run()
Schedule(call, arg) ==
    LET r == schedule_call(call, arg, h_queue, h_now, h_cycle, h_sched, h_pc, 0) IN
    /\ h_pc = "idle"
    /\ h_cycle < MaxSched
    /\ h_queue' = r.queue
    /\ h_cycle' = r.cycle
    /\ h_sched' = r.sched
    /\ UNCHANGED <<h_now, h_pc, h_log>>

GenInit ==
    /\ h_gens = <<>>
    /\ h_gen_log = <<>>

\* add_generator(generator), before run(); generators are numbered as they
\* are registered
AddGenerator ==
    /\ h_pc = "idle"
    /\ Len(h_gens) < MaxGens
    /\ h_gens' = Append(h_gens, Len(h_gens) + 1)
    /\ UNCHANGED <<h_gen_log, hist_vars>>

\* The loop over the generators taken from the last one
next_generator_last_first(gens, called) == gens[Len(gens) - Len(called)]

\* "for generator in self.generators": the generator whose turn it is
next_generator(gens, called) == gens[Len(called) + 1]

\* run() calls generate(self) of the next generator, which makes no
\* schedule_* call
GenerateNothing ==
    /\ h_pc \in {"idle", "generators"}
    /\ Len(h_gen_log) < Len(h_gens)
    /\ h_gen_log' = Append(h_gen_log, next_generator(h_gens, h_gen_log))
    /\ h_pc' = "generators"
    /\ UNCHANGED <<h_gens, h_queue, h_now, h_cycle, h_log, h_sched>>

\* run() calls generate(self) of the next generator, which makes one
\* schedule_* call
Generate(call, arg) ==
    LET r == schedule_call(call, arg, h_queue, h_now, h_cycle, h_sched,
                           "generators", 0) IN
    /\ h_pc \in {"idle", "generators"}
    /\ Len(h_gen_log) < Len(h_gens)
    /\ h_cycle < MaxSched
    /\ h_gen_log' = Append(h_gen_log, next_generator(h_gens, h_gen_log))
    /\ h_pc' = "generators"
    /\ h_queue' = r.queue
    /\ h_cycle' = r.cycle
    /\ h_sched' = r.sched
    /\ UNCHANGED <<h_gens, h_now, h_log>>

\* run(), after the loop over the generators and up to the while loop:
\* now = start_time
RunStart ==
    /\ h_pc \in {"idle", "generators"}
    /\ Len(h_gen_log) = Len(h_gens)
    /\ h_pc' = "running"
    /\ h_now' = HistStart
    /\ UNCHANGED <<h_queue, h_cycle, h_log, h_sched>>

\* "if self.event_queue.empty(): return"
RunEmpty ==
    /\ h_pc = "running"
    /\ h_queue = {}
    /\ h_pc' = "done"
    /\ UNCHANGED <<h_queue, h_now, h_cycle, h_log, h_sched>>

\* A slip in run(): the event at end_time is taken for the end of time
past_end_inclusive(e) == e.time_millis >= HistEnd

\* A run() without the test for the end of time
past_end_never(e) == FALSE

\* "if event.time_millis > self.end_time"
past_end(e) == e.time_millis > HistEnd

\* "elif event.time_millis < self.start_time"
pre_history(e) == e.time_millis < HistStart

\* The popped event is past the end of time: return, the event is gone
RunEndOfTime ==
    /\ h_pc = "running"
    /\ h_queue # {}
    /\ LET event == get_nowait(h_queue) IN
       /\ past_end(event)
       /\ h_queue' = h_queue \ {event}
    /\ h_pc' = "done"
    /\ UNCHANGED <<h_now, h_cycle, h_log, h_sched>>

\* The popped event is pre-history: continue
RunPreHistory ==
    /\ h_pc = "running"
    /\ h_queue # {}
    /\ LET event == get_nowait(h_queue) IN
       /\ ~past_end(event)
       /\ pre_history(event)
       /\ h_queue' = h_queue \ {event}
    /\ UNCHANGED <<h_now, h_cycle, h_pc, h_log, h_sched>>

Executed(event, now) == [cycle |-> event.cycle, time |-> event.time_millis, now |-> now]

\* The popped event is in the window: now = event.time_millis; event.action().
\* The action records get_time() and makes no schedule_* call.
RunExecute ==
    /\ h_pc = "running"
    /\ h_queue # {}
    /\ LET event == get_nowait(h_queue) IN
       /\ ~past_end(event)
       /\ ~pre_history(event)
       /\ event.cycle \notin t_cycles
       /\ h_now' = event.time_millis
       /\ h_log' = Append(h_log, Executed(event, event.time_millis))
       /\ h_queue' = h_queue \ {event}
    /\ UNCHANGED <<h_cycle, h_pc, h_sched>>

\* As RunExecute, with an action that also makes one schedule_* call
RunExecuteAndSchedule(call, arg) ==
    /\ h_pc = "running"
    /\ h_queue # {}
    /\ h_cycle < MaxSched
    /\ LET event == get_nowait(h_queue)
           r == schedule_call(call, arg, h_queue \ {event}, event.time_millis,
                              h_cycle, h_sched, h_pc, Len(h_log) + 1)
       IN
       /\ ~past_end(event)
       /\ ~pre_history(event)
       /\ event.cycle \notin t_cycles
       /\ h_now' = event.time_millis
       /\ h_log' = Append(h_log, Executed(event, event.time_millis))
       /\ h_queue' = r.queue
       /\ h_cycle' = r.cycle
       /\ h_sched' = r.sched
    /\ UNCHANGED h_pc

\* The scheduler's methods leave the other objects alone
HistFrame == UNCHANGED <<net_vars, sig_vars, rt_vars, timer_vars, flow_vars, gen_vars, upd_vars, share_vars>>

HistNext ==
    \/ \E c \in SchedCalls : Schedule(c[1], c[2]) /\ HistFrame
    \/ RunStart /\ HistFrame
    \/ RunEmpty /\ HistFrame
    \/ RunEndOfTime /\ HistFrame
    \/ RunPreHistory /\ HistFrame
    \/ RunExecute /\ HistFrame
    \/ \E c \in SchedCalls : RunExecuteAndSchedule(c[1], c[2]) /\ HistFrame

\* ------------------------------------------------ RealtimeNetworkScheduler
RtTimes == 0..MaxClock
RtCalls == (OffsetCalls \X Offsets) \cup (AtCalls \X RtTimes)
XQ == "XQ-Thread"
LoopThread == "loop"
ClientThread == "client"

RtInit ==
    /\ rt_clock = 0
    /\ rt_timers = {}
    /\ rt_q = <<>>
    /\ rt_pc = "get"
    /\ rt_active = {}
    /\ rt_done = <<>>
    /\ rt_calls = <<>>
    /\ rt_raised = {}
    /\ rt_running = TRUE
    /\ rt_loop = "running"
    /\ rt_mutating = {}
    /\ rt_unseen = {}

\* The offset the schedule_* methods hand to _schedule
offset_millis(call, arg, now) == IF call \in OffsetCalls THEN arg ELSE arg - now

\* A slip in _schedule: the test for the past comes too late
schedule_branch_past_is_soon(offset) == IF offset <= 0 THEN "call_soon" ELSE "call_later"

\* The branches of _schedule
schedule_branch(offset) ==
    IF offset = 0 THEN "call_soon"
    ELSE IF offset < 0 THEN "raise"
    ELSE "call_later"

\* loop.call_later from a thread that is not the loop's: the handle is pushed
\* on the loop's heap and nothing wakes the loop. A loop that is asleep in
\* select() keeps the timeout it computed before the handle was there; a loop
\* that is between two select() calls sees every handle at the next one.
call_later(unseen, cb, asleep) == IF asleep THEN unseen \cup {cb} ELSE {}

\* loop.call_soon_threadsafe: the handle is queued and the self-pipe is written,
\* so the loop wakes and looks at every handle it has
call_soon_threadsafe(unseen, cb) == {}

\* A schedule_* call by a client thread; callback cb is the call's number.
\* Whether the loop is asleep at that moment is the scheduler's choice.
RtSchedule(call, arg) ==
    LET offset == offset_millis(call, arg, rt_clock)
        cb == Len(rt_calls) + 1
        branch == schedule_branch(offset)
    IN
    /\ Len(rt_calls) < MaxRtCalls
    /\ rt_calls' = Append(rt_calls, [offset |-> offset, raised |-> branch = "raise",
                                     at |-> rt_clock])
    /\ rt_timers' =
          IF branch = "raise" THEN rt_timers
          ELSE IF branch = "call_soon" THEN rt_timers \cup {[cb |-> cb, due |-> rt_clock]}
          ELSE rt_timers \cup {[cb |-> cb, due |-> rt_clock + offset]}
    /\ \/ branch = "raise" /\ UNCHANGED rt_unseen
       \/ branch = "call_soon" /\ rt_unseen' = call_soon_threadsafe(rt_unseen, cb)
       \/ branch = "call_later" /\ \E asleep \in BOOLEAN :
                                      rt_unseen' = call_later(rt_unseen, cb, asleep)
    /\ UNCHANGED <<rt_clock, rt_q, rt_pc, rt_active, rt_done, rt_raised,
                   rt_running, rt_loop, rt_mutating>>

\* Time passes
RtTick ==
    /\ rt_clock < MaxClock
    /\ rt_clock' = rt_clock + 1
    /\ UNCHANGED <<rt_timers, rt_q, rt_pc, rt_active, rt_done, rt_calls,
                   rt_raised, rt_running, rt_loop, rt_mutating, rt_unseen>>

\* A slip in producer_callback: the callback is called where the timer fires
producer_callback_runs_it(q, active, cb) ==
    [q |-> q,
     active |-> active \cup {[cb |-> cb, thread |-> LoopThread, stopped |-> FALSE]}]

\* producer_callback: self.q.put(callback)
producer_callback(q, active, cb) == [q |-> Append(q, cb), active |-> active]

\* The loop runs a handle that is due and that it has seen; awake, it sees
\* every handle. A stopped loop runs none.
RtFire(h) ==
    LET r == producer_callback(rt_q, rt_active, h.cb) IN
    /\ rt_loop = "running"
    /\ h \in rt_timers
    /\ h.due <= rt_clock
    /\ h.cb \notin rt_unseen
    /\ rt_unseen' = {}
    /\ rt_timers' = rt_timers \ {h}
    /\ rt_q' = r.q
    /\ rt_active' = r.active
    /\ UNCHANGED <<rt_clock, rt_pc, rt_done, rt_calls, rt_raised, rt_running,
                   rt_loop, rt_mutating>>

\* ExecutionQueueThread.run: runnable = self.exec_q.get(), and runnable()
\* starts; stopped records whether shutdown() had returned by then
WorkerGet ==
    /\ rt_pc = "get"
    /\ rt_q # <<>>
    /\ rt_q' = Tail(rt_q)
    /\ rt_active' = rt_active \cup {[cb |-> Head(rt_q), thread |-> XQ,
                                     stopped |-> ~rt_running]}
    /\ rt_pc' = "run"
    /\ UNCHANGED <<rt_clock, rt_timers, rt_done, rt_calls, rt_raised, rt_running,
                   rt_loop, rt_mutating, rt_unseen>>

\* while self.running: back to exec_q.get(), or the end of run()
while_running(running) == IF running THEN "get" ELSE "stopped"

\* An exception that leaves run() and ends the thread
except_uncaught(running) == "stopped"

\* except BaseException: the error is logged and the loop goes on
except_base_exception(running) == while_running(running)

\* runnable() returns, and the thread is back at the head of its loop
WorkerDone ==
    /\ rt_pc = "run"
    /\ \E x \in rt_active :
          /\ x.thread = XQ
          /\ rt_active' = rt_active \ {x}
          /\ rt_done' = Append(rt_done, x.cb)
    /\ rt_pc' = while_running(rt_running)
    /\ UNCHANGED <<rt_clock, rt_timers, rt_q, rt_calls, rt_raised, rt_running,
                   rt_loop, rt_mutating, rt_unseen>>

\* runnable() raises
WorkerRaise ==
    /\ rt_pc = "run"
    /\ \E x \in rt_active :
          /\ x.thread = XQ
          /\ rt_active' = rt_active \ {x}
          /\ rt_raised' = rt_raised \cup {x.cb}
    /\ rt_pc' = except_base_exception(rt_running)
    /\ UNCHANGED <<rt_clock, rt_timers, rt_q, rt_calls, rt_done, rt_running,
                   rt_loop, rt_mutating, rt_unseen>>

\* shutdown(): self.loop.stop(); self.consumer.running = False
Shutdown ==
    /\ rt_running
    /\ rt_loop' = "stopped"
    /\ rt_running' = FALSE
    /\ UNCHANGED <<rt_clock, rt_timers, rt_q, rt_pc, rt_active, rt_done, rt_calls,
                   rt_raised, rt_mutating, rt_unseen>>

\* A thread other than the XQ-Thread enters attach, connect or disconnect of
\* the scheduler's Network: the Network takes no lock
ClientMutateBegin ==
    /\ ClientThread \notin rt_mutating
    /\ rt_mutating' = rt_mutating \cup {ClientThread}
    /\ UNCHANGED <<rt_clock, rt_timers, rt_q, rt_pc, rt_active, rt_done, rt_calls,
                   rt_raised, rt_running, rt_loop, rt_unseen>>

\* and returns from it
ClientMutateEnd ==
    /\ ClientThread \in rt_mutating
    /\ rt_mutating' = rt_mutating \ {ClientThread}
    /\ UNCHANGED <<rt_clock, rt_timers, rt_q, rt_pc, rt_active, rt_done, rt_calls,
                   rt_raised, rt_running, rt_loop, rt_unseen>>

\* The scheduler's threads leave the other objects alone
RtFrame == UNCHANGED <<net_vars, sig_vars, hist_vars, timer_vars, flow_vars, gen_vars, upd_vars, share_vars>>

RtNext ==
    \/ \E c \in RtCalls : RtSchedule(c[1], c[2]) /\ RtFrame
    \/ RtTick /\ RtFrame
    \/ \E h \in rt_timers : RtFire(h) /\ RtFrame
    \/ WorkerGet /\ RtFrame
    \/ WorkerDone /\ RtFrame
    \/ WorkerRaise /\ RtFrame
    \/ Shutdown /\ RtFrame
    \/ ClientMutateBegin /\ RtFrame
    \/ ClientMutateEnd /\ RtFrame

\* ------------------------------------------------------- RepeatingTimer
\* RepeatingTimer (signal.py 300-312) on a HistoricNetworkScheduler

Intervals == {k * (UsPerMilli \div 2) : k \in 1..MaxHalfMillis}

TimerInit ==
    /\ t_interval = 0
    /\ t_cycles = {}
    /\ t_fired = <<>>

\* int(self.interval.total_seconds() * 1000): whole milliseconds, the rest cut
to_millis_offset(interval) == interval \div UsPerMilli

\* RepeatingTimer(scheduler, interval), before run(): __init__ calls _schedule
CreateTimer(interval) ==
    LET r == schedule_call("schedule_event", to_millis_offset(interval), h_queue,
                           h_now, h_cycle, h_sched, h_pc, 0)
    IN
    /\ h_pc = "idle"
    /\ t_interval = 0
    /\ h_cycle < MaxSched
    /\ t_interval' = interval
    /\ t_cycles' = {r.cycle}
    /\ h_queue' = r.queue
    /\ h_cycle' = r.cycle
    /\ h_sched' = r.sched
    /\ UNCHANGED <<h_now, h_pc, h_log, t_fired>>

\* The popped event is the timer's and in the window: now = event.time_millis;
\* network.activate(timer) calls the timer's on_activate, which schedules the
\* next event and returns True, so the timer's dependents are activated
RunTimer ==
    /\ h_pc = "running"
    /\ h_queue # {}
    /\ h_cycle < MaxCycle
    /\ LET event == get_nowait(h_queue)
           r == schedule_call("schedule_event", to_millis_offset(t_interval),
                              h_queue \ {event}, event.time_millis, h_cycle,
                              h_sched, h_pc, Len(h_log) + 1)
       IN
       /\ ~past_end(event)
       /\ ~pre_history(event)
       /\ event.cycle \in t_cycles
       /\ h_now' = event.time_millis
       /\ h_log' = Append(h_log, Executed(event, event.time_millis))
       /\ t_fired' = Append(t_fired, event.time_millis)
       /\ t_cycles' = t_cycles \cup {r.cycle}
       /\ h_queue' = r.queue
       /\ h_cycle' = r.cycle
       /\ h_sched' = r.sched
    /\ UNCHANGED <<h_pc, t_interval>>

\* The timer and the scheduler leave the other objects alone
TimerFrame == UNCHANGED <<net_vars, sig_vars, rt_vars, flow_vars, gen_vars, upd_vars, share_vars>>

TimerNext ==
    \/ \E interval \in Intervals : CreateTimer(interval) /\ TimerFrame
    \/ RunTimer /\ TimerFrame
    \/ \E c \in SchedCalls : Schedule(c[1], c[2]) /\ HistFrame
    \/ RunStart /\ HistFrame
    \/ RunEmpty /\ HistFrame
    \/ RunEndOfTime /\ HistFrame
    \/ RunPreHistory /\ HistFrame
    \/ RunExecute /\ HistFrame

\* -------------------------------------------------------- SignalGenerator
\* run() with generators registered; the actions make no schedule_* call
GenFrame == UNCHANGED <<net_vars, sig_vars, rt_vars, timer_vars, flow_vars, upd_vars, share_vars>>

GenNext ==
    \/ AddGenerator /\ GenFrame
    \/ GenerateNothing /\ GenFrame
    \/ \E c \in SchedCalls : Generate(c[1], c[2]) /\ GenFrame
    \/ \E c \in SchedCalls : Schedule(c[1], c[2]) /\ HistFrame
    \/ RunStart /\ HistFrame
    \/ RunEmpty /\ HistFrame
    \/ RunEndOfTime /\ HistFrame
    \/ RunPreHistory /\ HistFrame
    \/ RunExecute /\ HistFrame

\* ------------------------------------------------------------ Operators
\* From, Map, Scan, Filter and Do (signal.py, event.py) fed by schedule_update

Tenths == (0 - MaxTenth)..MaxTenth

RECURSIVE Lists(_)
Lists(n) ==
    IF n = 0 THEN {<<>>}
    ELSE LET shorter == Lists(n - 1) IN
         shorter \cup {Append(l, v) : l \in {x \in shorter : Len(x) = n - 1}, v \in Tenths}

\* Signal.__init__: value None, modified False
NewSignal == [value |-> NoneValue, valid |-> FALSE, modified |-> FALSE]

\* Scan.__init__: prev_value = 0.0
NewScan == [value |-> NoneValue, valid |-> FALSE, modified |-> FALSE, prev |-> 0]

FlowInit ==
    /\ f_pc = "new"
    /\ f_list = <<>>
    /\ f_pending = <<>>
    /\ f_from = NewSignal
    /\ f_map = NewSignal
    /\ f_scan = NewScan
    /\ f_filter = NewSignal
    /\ f_trace = <<>>

\* Signal._update on a signal object
signal_update(sig, value) ==
    [sig EXCEPT !.value = update(value).value, !.valid = TRUE,
                !.modified = update(value).modified]

\* round(x) of Python 3 on a value in tenths: the nearest whole number, a
\* half going to the even neighbour
round(x) ==
    LET q == x \div TenthsPerUnit
        r == x % TenthsPerUnit
    IN IF 2 * r < TenthsPerUnit THEN q
       ELSE IF 2 * r > TenthsPerUnit THEN q + 1
       ELSE IF q % 2 = 0 THEN q ELSE q + 1

\* The predicate handed to Filter: lambda x: x >= 0.0
predicate(x) == x >= 0

\* From.__init__: one schedule_update per value, in list order
from_init(values) == values

\* A Function.on_activate that leaves the flag of the cycle before
function_reset_skipped(sig) == sig

\* Function.on_activate: self.modified = False
function_reset(sig) == [sig EXCEPT !.modified = FALSE]

\* Map._call
map_call(sig, values) ==
    IF values.valid THEN signal_update(sig, round(values.value)) ELSE sig

\* Filter._call
filter_call(sig, values) ==
    IF values.valid /\ predicate(values.value)
    THEN signal_update(sig, values.value)
    ELSE sig

\* A Scan._call that does not keep the running total
scan_call_forgets(sig, values) ==
    IF values.valid
    THEN signal_update(sig, sig.prev + values.value)
    ELSE sig

\* Scan._call
scan_call(sig, values) ==
    IF values.valid
    THEN LET new_value == sig.prev + values.value IN
         [signal_update(sig, new_value) EXCEPT !.prev = new_value]
    ELSE sig

\* The client builds From(scheduler, values), then Map, Scan, Filter and Do
\* on it, before the scheduler executes the first update
Build(values) ==
    /\ f_pc = "new"
    /\ f_pc' = "built"
    /\ f_list' = values
    /\ f_pending' = from_init(values)
    /\ UNCHANGED <<f_from, f_map, f_scan, f_filter, f_trace>>

\* The scheduler executes the next update: set_and_activate sets From's value
\* and activates it; an operator is activated when its input returned true
SetAndActivate ==
    /\ f_pc = "built"
    /\ f_pending # <<>>
    /\ LET value == Head(f_pending)
           from1 == signal_update(f_from, value)
           r == on_activate(from1.modified)
           from2 == [from1 EXCEPT !.modified = r.modified]
           map2 == IF r.result THEN map_call(function_reset(f_map), from2) ELSE f_map
           map_ret == r.result /\ map2.modified
           scan2 == IF map_ret THEN scan_call(function_reset(f_scan), map2) ELSE f_scan
           filter2 == IF r.result THEN filter_call(function_reset(f_filter), from2)
                      ELSE f_filter
           filter_ret == r.result /\ filter2.modified
       IN
       /\ f_pending' = Tail(f_pending)
       /\ f_from' = from2
       /\ f_map' = map2
       /\ f_scan' = scan2
       /\ f_filter' = filter2
       /\ f_trace' = Append(f_trace, [value |-> value, map |-> r.result,
                                     scan |-> map_ret, do |-> filter_ret])
    /\ UNCHANGED <<f_pc, f_list>>

\* The operators leave the other objects alone
FlowFrame == UNCHANGED <<net_vars, sig_vars, hist_vars, rt_vars, timer_vars, gen_vars, upd_vars, share_vars>>

FlowNext ==
    \/ f_pc = "new" /\ \E values \in Lists(MaxList) : Build(values) /\ FlowFrame
    \/ SetAndActivate /\ FlowFrame

\* ------------------------------------------------------- schedule_update
\* One MutableSignal with one dependent connected to it, fed by
\* schedule_update and schedule_update_at of either scheduler; the scheduler
\* runs the closures it holds in the order of their times, which is any order
UpdCalls == {"schedule_update", "schedule_update_at"}

UpdInit ==
    /\ u_sig = [value |-> NoneValue, modified |-> FALSE]
    /\ u_env = 1
    /\ u_pending = {}
    /\ u_log = <<>>
    /\ u_op = [op |-> "init", before |-> [value |-> NoneValue, modified |-> FALSE]]

\* The closure set_and_activate with what it captured: value is the value
\* handed over, or for a thunk what it returned at the time of the call
\* (which the code does not look at)
Closure(id, call, thunk, value) ==
    [id |-> id, call |-> call, thunk |-> thunk, value |-> value]

\* schedule_update(signal, value, offset) or schedule_update_at(signal,
\* value, time): the closure is handed to the scheduler
ScheduleUpdate(call, thunk, value) ==
    LET id == Cardinality(u_pending) + Len(u_log) + 1 IN
    /\ id <= MaxUpd
    /\ u_pending' = u_pending \cup
          {Closure(id, call, thunk, IF thunk THEN u_env ELSE value)}
    /\ u_op' = [op |-> "schedule", before |-> u_sig]
    /\ UNCHANGED <<u_sig, u_env, u_log>>

\* What the thunk returns changes
EnvChange(value) ==
    /\ value # u_env
    /\ u_env' = value
    /\ u_op' = [op |-> "env", before |-> u_sig]
    /\ UNCHANGED <<u_sig, u_pending, u_log>>

\* A closure that uses what the thunk returned when the update was scheduled
closure_value_early(c, env) == c.value

\* "if isinstance(value, Callable): signal.set_value(value())": the thunk is
\* called when the closure runs
closure_value(c, env) == IF c.thunk THEN env ELSE c.value

\* A closure that activates the signal before it sets the value
activate_and_set(sig, value) ==
    LET r == on_activate(sig.modified) IN
    [sig  |-> [value |-> update(value).value, modified |-> update(value).modified],
     ret  |-> r.result,
     read |-> sig.value]

\* set_and_activate: signal.set_value(..), then network.activate(signal);
\* the scan asks the signal, and its dependent when the signal returned true.
\* read is the value the dependent gets from the signal when it is invoked.
set_and_activate(sig, value) ==
    LET sig1 == [value |-> update(value).value, modified |-> update(value).modified]
        r == on_activate(sig1.modified)
    IN [sig  |-> [value |-> sig1.value, modified |-> r.modified],
        ret  |-> r.result,
        read |-> sig1.value]

\* The scheduler runs a closure
FireUpdate(c) ==
    LET value == closure_value(c, u_env)
        r == set_and_activate(u_sig, value)
    IN
    /\ c \in u_pending
    /\ u_pending' = u_pending \ {c}
    /\ u_sig' = r.sig
    /\ u_log' = Append(u_log, [closure |-> c, env |-> u_env, ret |-> r.ret,
                               invoked |-> r.ret, read |-> r.read])
    /\ u_op' = [op |-> "fire", before |-> u_sig]
    /\ UNCHANGED u_env

UpdFrame == UNCHANGED <<net_vars, sig_vars, hist_vars, gen_vars, rt_vars, timer_vars,
                        flow_vars, share_vars>>

UpdNext ==
    \/ \E call \in UpdCalls, thunk \in BOOLEAN, value \in Values :
          (thunk => value = u_env) /\ ScheduleUpdate(call, thunk, value) /\ UpdFrame
    \/ \E value \in Values : EnvChange(value) /\ UpdFrame
    \/ \E c \in u_pending : FireUpdate(c) /\ UpdFrame

\* --------------------------------------- the schedulers' network argument
\* The scheduler classes, and the Network() each __init__ was given as the
\* default of its network parameter when the class body was executed
SchedulerClasses == {"HistoricNetworkScheduler", "RealtimeNetworkScheduler"}
DefaultNetwork(cls) == IF cls = "HistoricNetworkScheduler" THEN 1 ELSE 2
\* The Network() the client makes for the n-th scheduler
OwnNetwork(n) == 2 + n

\* Network.__init__
NewNetwork == [ids |-> EmptyDict, cur |-> 0, nodes |-> EmptyDict, edges |-> EmptyDict,
               flags |-> EmptyDict]

ShareInit ==
    /\ s_scheds = <<>>
    /\ s_nets = [n \in {DefaultNetwork(c) : c \in SchedulerClasses} |-> NewNetwork]
    /\ s_op = [op |-> "init", by |-> 0, before |-> s_nets]

\* A default that is made anew by each call of __init__
network_argument_fresh(cls, own, n) == OwnNetwork(n)

\* "network: Network = Network()": the argument, or the default object
network_argument(cls, own, n) == IF own THEN OwnNetwork(n) ELSE DefaultNetwork(cls)

\* A scheduler is constructed, with a Network() of its own or with none
NewScheduler(cls, own) ==
    LET n == Len(s_scheds) + 1
        net == network_argument(cls, own, n)
    IN
    /\ n <= MaxSchedulers
    /\ s_scheds' = Append(s_scheds, [cls |-> cls, own |-> own, network |-> net])
    /\ s_nets' = [x \in DOMAIN s_nets \cup {net} |->
                     IF x \in DOMAIN s_nets THEN s_nets[x] ELSE NewNetwork]
    /\ s_op' = [op |-> "new", by |-> n, before |-> s_nets]

\* How many Events the Networks have attached, all in all
ShareOps == Cardinality({p \in (DOMAIN s_nets) \X Events : p[2] \in DOMAIN s_nets[p[1]].ids})

\* scheduler.get_network().attach(evt)
AttachThrough(i, evt) ==
    LET net == s_scheds[i].network
        tab == s_nets[net]
        t == attach([ids |-> tab.ids, cur |-> tab.cur, nodes |-> tab.nodes,
                     edges |-> tab.edges], evt)
    IN
    /\ ShareOps < MaxShareOps
    /\ s_nets' = [s_nets EXCEPT ![net] =
                     [ids |-> t.ids, cur |-> t.cur, nodes |-> t.nodes,
                      edges |-> t.edges, flags |-> tab.flags]]
    /\ s_op' = [op |-> "attach", by |-> i, before |-> s_nets]
    /\ UNCHANGED s_scheds

\* scheduler.get_network().connect(evt1, evt2)
ConnectThrough(i, evt1, evt2) ==
    LET net == s_scheds[i].network
        tab == s_nets[net]
        t1 == attach([ids |-> tab.ids, cur |-> tab.cur, nodes |-> tab.nodes,
                      edges |-> tab.edges], evt1)
        t2 == attach(t1, evt2)
    IN
    /\ ShareOps < MaxShareOps
    /\ s_nets' = [s_nets EXCEPT ![net] =
                     [ids |-> t2.ids, cur |-> t2.cur, nodes |-> t2.nodes,
                      edges |-> connect_edge(t2, evt1, evt2),
                      flags |-> DictSet(DictSet(tab.flags, evt1, FALSE), evt2, FALSE)]]
    /\ s_op' = [op |-> "connect", by |-> i, before |-> s_nets]
    /\ UNCHANGED s_scheds

ShareFrame == UNCHANGED <<net_vars, sig_vars, hist_vars, gen_vars, rt_vars, timer_vars,
                          flow_vars, upd_vars>>

ShareNext ==
    \/ \E cls \in SchedulerClasses, own \in BOOLEAN : NewScheduler(cls, own) /\ ShareFrame
    \/ \E i \in 1..Len(s_scheds), evt \in Events : AttachThrough(i, evt) /\ ShareFrame
    \/ \E i \in 1..Len(s_scheds), evt1, evt2 \in Events :
          ConnectThrough(i, evt1, evt2) /\ ShareFrame

Init ==
    /\ ShareInit
    /\ NetInit /\ SigInit /\ HistInit /\ GenInit /\ RtInit /\ TimerInit /\ FlowInit
    /\ UpdInit

SpecNet == Init /\ [][NetNext]_vars
SpecSig == Init /\ [][SigNext]_vars
SpecHist == Init /\ [][HistNext]_vars
SpecGen == Init /\ [][GenNext]_vars
SpecTimer == Init /\ [][TimerNext]_vars
SpecFlow == Init /\ [][FlowNext]_vars
SpecRt == Init /\ [][RtNext]_vars
SpecUpd == Init /\ [][UpdNext]_vars
SpecShare == Init /\ [][ShareNext]_vars

\* The XQ-Thread is a thread of its own: it is scheduled again and again, and
\* a callback it runs comes to an end, by returning or by raising
SpecRtFair ==
    /\ SpecRt
    /\ WF_vars(WorkerGet /\ RtFrame)
    /\ WF_vars((WorkerDone \/ WorkerRaise) /\ RtFrame)

\* run() is sequential code: once called, its loop goes on to the next
\* iteration; the client is not bound to call anything
SpecTimerFair ==
    /\ SpecTimer
    /\ WF_vars((RunEmpty \/ RunEndOfTime \/ RunPreHistory \/ RunExecute) /\ HistFrame)
    /\ WF_vars(RunTimer /\ TimerFrame)

\* and so is the thread in loop.run_forever(): time passes, and the loop runs
\* the handles it is able to run
SpecRtLive ==
    /\ SpecRtFair
    /\ WF_vars(RtTick /\ RtFrame)
    /\ WF_vars((\E h \in rt_timers : RtFire(h)) /\ RtFrame)

\* ------------------------------------------------- properties of activate
Attached == DOMAIN node_id_map
\* The dependents of an attached Event, as Events, in edge insertion order
Dependents(evt) ==
    LET es == graph_edges[node_id_map[evt]] IN
    [i \in 1..Len(es) |-> graph_nodes[es[i]]]
Producers(evt) == {p \in Attached : evt \in SeqRange(Dependents(p))}
Invoked == {calls[i].evt : i \in 1..Len(calls)}
ReturnedTrue == {calls[i].evt : i \in {k \in 1..Len(calls) : calls[k].ret}}
EvtsOf(log) == [i \in 1..Len(log) |-> log[i].evt]
\* The state right after an activate(root) that found its root
JustActivated == net_op.op = "activate" /\ net_op.ok
\* Events reachable from the root over edges leaving Events that returned true
RECURSIVE LiveFrom(_)
LiveFrom(seen) ==
    LET nxt == UNION {SeqRange(Dependents(e)) : e \in seen \cap ReturnedTrue} \ seen IN
    IF nxt = {} THEN seen ELSE LiveFrom(seen \cup nxt)

\* C1: in activate(root) a node other than the root is invoked only after one
\* of its direct producers was invoked in this cycle and returned true, and
\* nothing is invoked that is reachable only through a node that returned false.
C1_ShortCircuit ==
    JustActivated =>
        /\ calls[1].evt = net_op.a
        /\ \A i \in 2..Len(calls) :
              \E j \in 1..(i - 1) :
                  calls[j].ret /\ calls[j].evt \in Producers(calls[i].evt)
        /\ Invoked \subseteq LiveFrom({net_op.a})

\* A cycle in which an invoked node returned false and a dependent of it, two
\* edges below the root, stayed uninvoked
C1_Witness ==
    /\ JustActivated
    /\ Len(calls) >= 2
    /\ \E i \in 2..Len(calls) :
          /\ ~calls[i].ret
          /\ \E d \in SeqRange(Dependents(calls[i].evt)) : d \notin Invoked

IsChain(a, b, c) ==
    /\ {a, b, c} \subseteq Attached /\ Cardinality({a, b, c}) = 3
    /\ Dependents(a) = <<b>> /\ Dependents(b) = <<c>> /\ Dependents(c) = <<>>
IsFanOut(a, b, c) ==
    /\ {a, b, c} \subseteq Attached /\ Cardinality({a, b, c}) = 3
    /\ Dependents(a) = <<b, c>> /\ Dependents(b) = <<>> /\ Dependents(c) = <<>>
AllReturnedTrue == \A i \in 1..Len(calls) : calls[i].ret

\* C2: on a chain a->b->c and on a fan-out a->b, a->c, activate(a) with every
\* on_activate returning true invokes a, b and c once each, a producer before
\* its dependents (a, b, c in that order on the chain).
C2_Propagation ==
    \A a, b, c \in Events :
        (JustActivated /\ net_op.a = a /\ AllReturnedTrue) =>
            /\ IsChain(a, b, c) => EvtsOf(calls) = <<a, b, c>>
            /\ IsFanOut(a, b, c) =>
                  /\ Len(calls) = 3 /\ calls[1].evt = a
                  /\ Invoked = {a, b, c}

\* Both shapes are activated with every node returning true
C2_Witness ==
    /\ JustActivated /\ AllReturnedTrue /\ Len(calls) = 3
    /\ \E a, b, c \in Events : net_op.a = a /\ IsChain(a, b, c)
C2_WitnessFanOut ==
    /\ JustActivated /\ AllReturnedTrue /\ Len(calls) = 3
    /\ \E a, b, c \in Events : net_op.a = a /\ IsFanOut(a, b, c)

\* C3: in one activate(root), on any graph, every node's on_activate is invoked
\* at most once.
C3_AtMostOnce ==
    JustActivated =>
        \A i, j \in 1..Len(calls) : i # j => calls[i].evt # calls[j].evt

\* ------------------------------------------- properties of MutableSignal
\* C4 as stated: on_activate returns true exactly once per set_value call, so
\* once an on_activate call has returned, as many calls have returned true as
\* set_value calls were made.
C4_OncePerSetValue ==
    sig_op.op = "on_activate" => sig_n_true = sig_n_sets

\* C4 amended: on_activate returns true exactly when set_value was called at
\* least once since the last true return (or since construction), whatever
\* number of set_value calls that was, and a false return changes no state.
C4_EdgeTriggered ==
    [][sig_n_acts' # sig_n_acts =>
          /\ sig_op'.result = (sig_pending > 0)
          /\ ~sig_op'.result =>
                (sig_value' = sig_value /\ sig_modified' = sig_modified)]_vars

\* Two set_value calls answered by one true return, and a later false return
C4_Witness ==
    /\ sig_op.op = "on_activate" /\ ~sig_op.result
    /\ sig_n_sets = 2 /\ sig_n_true = 1 /\ sig_n_acts = 2

\* ---------------------------------- properties of the historical scheduler
InWindow(t) == HistStart <= t /\ t <= HistEnd
\* The positions in h_log at which the event of schedule call c was executed
ExecutedAt(c) == {i \in 1..Len(h_log) : h_log[i].cycle = c}
\* The schedule calls made before run()
PreRun == {c \in 1..Len(h_sched) : h_sched[c].pre}

\* C5: of the events scheduled before run(), by offset or by absolute time,
\* run() executes exactly those with HistStart <= t <= HistEnd, in ascending
\* timestamp order, each with get_time() equal to its timestamp; the others are
\* never executed.
C5_WindowReplay ==
    /\ \A c \in PreRun :
          /\ Cardinality(ExecutedAt(c)) <= 1
          /\ ExecutedAt(c) # {} => InWindow(h_sched[c].time)
          /\ \A i \in ExecutedAt(c) :
                h_log[i].now = h_sched[c].time /\ h_log[i].time = h_sched[c].time
          /\ (h_pc = "done" /\ InWindow(h_sched[c].time)) => ExecutedAt(c) # {}
    /\ \A i, j \in 1..Len(h_log) :
          (i < j /\ h_log[i].cycle \in PreRun /\ h_log[j].cycle \in PreRun)
              => h_log[i].now <= h_log[j].now

\* run() has returned after executing the events at both ends of the window,
\* one scheduled by offset and one by absolute time, and dropping one scheduled
\* outside the window
C5_Witness ==
    /\ h_pc = "done"
    /\ Len(h_sched) >= 3
    /\ \E c, d \in PreRun :
          /\ h_sched[c].time = HistStart /\ h_sched[c].rel /\ ExecutedAt(c) # {}
          /\ h_sched[d].time = HistEnd /\ ~h_sched[d].rel /\ ExecutedAt(d) # {}
    /\ \E c \in PreRun : ~InWindow(h_sched[c].time) /\ ExecutedAt(c) = {}

\* C6: two events scheduled for the same timestamp (both scheduled before
\* either is executed) are executed in the order of their schedule_* calls, and
\* no event of another timestamp is executed between them.
C6_TieBreak ==
    \A i, j \in 1..Len(h_log) :
        (/\ i < j
         /\ h_log[i].time = h_log[j].time
         /\ h_sched[h_log[j].cycle].after < i) =>
            /\ h_log[i].cycle < h_log[j].cycle
            /\ \A k \in (i + 1)..(j - 1) : h_log[k].time = h_log[i].time

\* C7: get_time() never decreases from one executed action to the next.
C7_TimeNeverDecreases ==
    \A i, j \in 1..Len(h_log) : i < j => h_log[i].now <= h_log[j].now

\* C8: the action of an offset-relative call with a negative offset is never
\* executed, whether the call is made before run() or by an executing action.
C8_NegativeOffsetDropped ==
    \A c \in 1..Len(h_sched) :
        (h_sched[c].rel /\ h_sched[c].arg < 0) => ExecutedAt(c) = {}

\* ----------------------------------- properties of the real-time scheduler
\* Callback cb is somewhere: armed, queued, executing or done
RtArmed(cb) == \E h \in rt_timers : h.cb = cb
RtQueued(cb) == \E i \in 1..Len(rt_q) : rt_q[i] = cb
RtExecuting(cb) == \E x \in rt_active : x.cb = cb
RtDone(cb) == \E i \in 1..Len(rt_done) : rt_done[i] = cb

\* C9: a scheduling call whose offset (or absolute time minus the current time)
\* is negative raises in the caller, and for that call no timer is armed and
\* nothing is ever enqueued or executed.
C9_PastRaises ==
    \A cb \in 1..Len(rt_calls) :
        rt_calls[cb].offset < 0 =>
            /\ rt_calls[cb].raised
            /\ ~RtArmed(cb) /\ ~RtQueued(cb) /\ ~RtExecuting(cb) /\ ~RtDone(cb)

\* A call with a negative offset was made and raised, and a later call made
\* with offset 0 has run: the rejected one left nothing behind
C9_Witness ==
    \E cb, ok \in 1..Len(rt_calls) :
        /\ cb < ok
        /\ rt_calls[cb].offset < 0 /\ rt_calls[cb].raised
        /\ rt_calls[ok].offset = 0 /\ RtDone(ok)

\* C10: callbacks are executed only by the XQ-Thread, at most one at a time,
\* and a callback is taken from the queue only when the one taken before it
\* has run to completion.
C10_SerialExecution ==
    [][/\ \A x \in rt_active' : x.thread = XQ
       /\ Cardinality(rt_active') <= 1
       /\ Len(rt_q') < Len(rt_q) => (rt_active = {} /\ Cardinality(rt_active') = 1)]_vars

\* One callback is executing on the XQ-Thread while another, enqueued from
\* the loop, waits in the queue
C10_Witness ==
    /\ rt_pc = "run" /\ Cardinality(rt_active) = 1
    /\ Len(rt_q) >= 1

\* ------------------------------------------------------------------ C14
\* C14: after every activate call, an Event that holds a flag entry has its
\* flag set exactly when its on_activate was invoked in that call: the flags
\* of the cycle before are cleared first and none of them survives
C14_FlagsAreThisCycle ==
    net_op.op = "activate" =>
        \A n \in DOMAIN activation_flags :
            activation_flags[n] <=> (n \in Invoked)

\* A later cycle that left out an Event holding a flag entry: the cycle
\* invoked some Event and another flagged Event ends the call with no flag
C14_Witness ==
    /\ JustActivated
    /\ net_ops >= 3
    /\ \E n, m \in DOMAIN activation_flags :
           /\ n \in Invoked /\ activation_flags[n]
           /\ m \notin Invoked /\ ~activation_flags[m]

\* ------------------------------------------------------------------ C15
\* C15: after connect(a, b), attached before or not, both Events are
\* attached, the edge a -> b exists, and has_activated is false for both
C15_ConnectPostcondition ==
    net_op.op = "connect" =>
        /\ net_op.ok
        /\ net_op.a \in Attached /\ net_op.b \in Attached
        /\ net_op.b \in SeqRange(Dependents(net_op.a))
        /\ has_activated(activation_flags, net_op.a) = [ok |-> TRUE, value |-> FALSE]
        /\ has_activated(activation_flags, net_op.b) = [ok |-> TRUE, value |-> FALSE]

\* connect of two different Events after a cycle that had invoked the first:
\* its flag of that cycle is gone
C15_Witness ==
    /\ net_op.op = "connect"
    /\ net_op.a # net_op.b
    /\ net_op.a \in Invoked
    /\ net_op.b \notin Invoked

\* ------------------------------------------------------------------ C16
\* C16: disconnect, has_activated and activate called with an Event that was
\* never attached raise a lookup failure; none of them returns a result
C16_UnattachedRaises ==
    /\ (net_op.op \in {"disconnect", "has_activated", "activate"}
            /\ net_op.a \notin Attached) => ~net_op.ok
    /\ (net_op.op = "disconnect" /\ net_op.b \notin Attached) => ~net_op.ok

\* Each of the three operations has been called with an unattached Event
\* while another Event was attached
C16_WitnessDisconnect ==
    /\ net_op.op = "disconnect" /\ Attached # {}
    /\ net_op.a \in Attached /\ net_op.b \notin Attached

C16_WitnessHasActivated ==
    net_op.op = "has_activated" /\ Attached # {} /\ net_op.a \notin Attached

C16_WitnessActivate ==
    net_op.op = "activate" /\ Attached # {} /\ net_op.a \notin Attached

\* ------------------------------------------------------------------ C11
\* The XQ-Thread ends only after shutdown(), and a callback that raised is
\* nowhere any more: not armed, not queued, not executing, not completed
C11_WorkerSurvives ==
    /\ rt_pc = "stopped" => ~rt_running
    /\ \A cb \in rt_raised :
           ~RtArmed(cb) /\ ~RtQueued(cb) /\ ~RtExecuting(cb) /\ ~RtDone(cb)

\* C11: a callback that raises is caught by the XQ-Thread, which keeps
\* running: the failed callback is not attempted again, and (absent a
\* shutdown) every callback in the queue once a callback has failed is
\* still executed
C11_ExceptionContained ==
    /\ []C11_WorkerSurvives
    /\ \A cb \in 1..MaxRtCalls :
           (rt_raised # {} /\ RtQueued(cb))
               ~> (RtDone(cb) \/ cb \in rt_raised \/ ~rt_running)

\* A callback raised, and a callback scheduled after it has run to completion
C11_Witness ==
    \E bad \in rt_raised : \E cb \in 1..Len(rt_calls) :
        bad < cb /\ RtDone(cb) /\ rt_running

\* ------------------------------------------------------------------ C12
\* C12: once shutdown() has returned, no callback begins execution
C12_NothingStartsAfterShutdown ==
    \A x \in rt_active : ~x.stopped

\* ------------------------------------------------------------------ C20
\* C20: while the XQ-Thread is inside a scheduled callback (for
\* schedule_event and schedule_update that is Network.activate), no other
\* thread is inside attach, connect or disconnect of the Network
C20_ActivateExcludesMutation ==
    ~(rt_mutating # {} /\ \E x \in rt_active : x.thread = XQ)

\* ------------------------------------------------------------------ C17
\* The times, in microseconds, at which a timer of the given interval is due
\* in the window: start + k * interval for k = 1 .. floor((end - start) / interval)
TimerDue(interval) ==
    {HistStart * UsPerMilli + k * interval :
        k \in 1..(((HistEnd - HistStart) * UsPerMilli) \div interval)}

\* C17: the dependents of a RepeatingTimer of interval d > 0 created before
\* run() fire at start + k*d for k = 1 .. floor((end - start) / d), once
\* each, and at no other time
C17_TimerFirings ==
    t_interval > 0 =>
        /\ \A i \in 1..Len(t_fired) : t_fired[i] * UsPerMilli \in TimerDue(t_interval)
        /\ \A i, j \in 1..Len(t_fired) : i < j => t_fired[i] < t_fired[j]
        /\ h_pc = "done" =>
               {t_fired[i] * UsPerMilli : i \in 1..Len(t_fired)} = TimerDue(t_interval)

\* ------------------------------------------------------------------ C18
\* The updates executed so far, in order
Processed == [i \in 1..Len(f_trace) |-> f_trace[i].value]

RECURSIVE SumRounded(_)
SumRounded(values) ==
    IF values = <<>> THEN 0 ELSE round(Head(values)) + SumRounded(Tail(values))

\* C18: the values of the list are processed in list order, one activation
\* cycle each in which Map and Scan fire, and Scan's value is the sum of the
\* rounded values processed; with all of them processed, of the whole list
C18_MapReduce ==
    f_pc = "built" =>
        /\ Len(f_trace) + Len(f_pending) = Len(f_list)
        /\ Processed = SubSeq(f_list, 1, Len(f_trace))
        /\ \A i \in 1..Len(f_trace) : f_trace[i].map /\ f_trace[i].scan
        /\ f_trace # <<>> => (f_scan.valid /\ f_scan.value = SumRounded(Processed))
        /\ (f_pending = <<>> /\ f_list # <<>>) => f_scan.value = SumRounded(f_list)

\* A list of two values has been processed, with a half that rounds down to
\* the even neighbour and a value that rounds up
C18_Witness ==
    /\ f_pc = "built" /\ f_pending = <<>>
    /\ Len(f_list) = 2
    /\ 2 * (f_list[1] % TenthsPerUnit) = TenthsPerUnit /\ round(f_list[1]) * TenthsPerUnit < f_list[1]
    /\ round(f_list[2]) * TenthsPerUnit > f_list[2]
    /\ f_scan.value # 0

\* ------------------------------------------------------------------ C19
\* The processed values that satisfy Filter's predicate, in order
Satisfying == SelectSeq(Processed, predicate)

\* C19: Filter's value is unset while no processed value satisfied the
\* predicate, and otherwise the last processed value that did; Filter's
\* dependent fires in exactly the cycles whose value satisfied the predicate
C19_Filter ==
    f_pc = "built" =>
        /\ f_filter.valid <=> Satisfying # <<>>
        /\ f_filter.valid => f_filter.value = Satisfying[Len(Satisfying)]
        /\ \A i \in 1..Len(f_trace) : f_trace[i].do <=> predicate(f_trace[i].value)

\* A value that satisfies the predicate was processed, and after it one
\* that does not: Filter still holds the first
C19_Witness ==
    /\ Len(f_trace) = 2
    /\ predicate(f_trace[1].value) /\ ~predicate(f_trace[2].value)
    /\ f_filter.valid /\ f_filter.value = f_trace[1].value /\ f_from.value # f_filter.value

\* ------------------------------------------------------------------ C23
\* The place of a dependent among the edges of its producer
EdgePos(prod, dep) ==
    CHOOSE i \in 1..Len(Dependents(prod)) : Dependents(prod)[i] = dep

C26_DisconnectRemoves ==
    (/\ net_op.op = "disconnect" /\ net_pre.had_edge
     /\ net_op.a # net_op.b /\ net_pre.clean) =>
        /\ net_op.ok
        /\ net_op.b \notin SeqRange(Dependents(net_op.a))
        /\ net_op.a \notin DOMAIN activation_flags
        /\ net_op.b \notin DOMAIN activation_flags
        /\ net_op.a \in Attached /\ net_op.b \in Attached

\* ------------------------------------------------------------------ C27
\* Ids are unique and none is greater than the last one handed out
IdsUnique ==
    /\ \A e1, e2 \in Attached : node_id_map[e1] = node_id_map[e2] => e1 = e2
    /\ \A e \in Attached : node_id_map[e] \in 1..current_id

\* C27: an Event gets its id when it is first attached or connected; the id
\* is greater than every id handed out before, is shared with no other Event
\* and never changes; attach of an attached Event changes no id, no edge and
\* no flag
C27_Ids ==
    /\ []IdsUnique
    /\ [][/\ \A e \in Attached : e \in Attached' /\ node_id_map'[e] = node_id_map[e]
          /\ \A e \in Attached' \ Attached :
                 /\ node_id_map'[e] > current_id
                 /\ net_op'.op \in {"attach", "connect"}
                 /\ e \in {net_op'.a, net_op'.b}
          /\ (net_op'.op = "attach" /\ net_op'.a \in Attached) =>
                 NetTables' = NetTables]_vars

\* An attached Event that has a flag and an edge was attached again, after a
\* second Event got its id through connect
C27_Witness ==
    /\ net_op.op = "attach" /\ ~net_pre.changed
    /\ net_op.a \in DOMAIN activation_flags
    /\ Dependents(net_op.a) # <<>>
    /\ Cardinality(Attached) >= 2

\* ------------------------------------------------------------------ C28
\* C28: an operation that fails with a lookup failure leaves the ids, the
\* edges and the flags as they were before the call (stated for calls whose
\* arguments are not one and the same Event)
C28_FailureChangesNothing ==
    (~net_op.ok /\ net_op.a # net_op.b) => ~net_pre.changed

\* ------------------------------------------------------------------ C29
\* The Events that are an endpoint of an edge
Endpoints ==
    {e \in Attached : Dependents(e) # <<>> \/ Producers(e) # {}}

\* No Event is its own dependent
NoSelfLoop == \A e \in Attached : e \notin SeqRange(Dependents(e))

\* C29: after operations that all returned, the disconnect calls among them
\* all made for existing edges, every Event that is an endpoint of an edge
\* has a flag entry, so has_activated on it returns a boolean (stated for
\* graphs in which no Event is its own dependent)
C29_EndpointsHaveFlags ==
    (/\ NoSelfLoop /\ net_pre.clean /\ net_op.ok
     /\ net_op.op = "disconnect" => net_pre.had_edge) =>
        \A e \in Endpoints : has_activated(activation_flags, e).ok

\* ------------------------------------------------------------------ C21
\* Call c was accepted by _schedule, and its due time is one the clock of the
\* model reaches
Accepted(c) ==
    /\ c <= Len(rt_calls)
    /\ ~rt_calls[c].raised
    /\ rt_calls[c].at + rt_calls[c].offset <= MaxClock
\* How many times callback c was run to its end by the worker
TimesRun(c) ==
    Cardinality({i \in 1..Len(rt_done) : rt_done[i] = c})
  + (IF c \in rt_raised THEN 1 ELSE 0)

\* C21: in the real-time scheduler every callback scheduled with an offset
\* >= 0 is in the end put on the queue and run by the worker, unless
\* shutdown() is called first
C21_EventuallyExecuted ==
    \A c \in 1..MaxRtCalls :
        [](Accepted(c) => <>(TimesRun(c) >= 1 \/ ~rt_running))

\* ------------------------------------------------------------------ C22
\* The schedule calls with offset 0 made by an executing action
ZeroOffsetInRun ==
    {c \in 1..Len(h_sched) : h_sched[c].rel /\ h_sched[c].arg = 0 /\ ~h_sched[c].pre}
\* The events that were in the queue for the timestamp of call c when c was made
QueuedWith(c) ==
    {d \in 1..(c - 1) : /\ h_sched[d].time = h_sched[c].time
                        /\ \A j \in ExecutedAt(d) : j > h_sched[c].after}

\* C22: an event scheduled with offset 0 by an executing action is executed
\* once, later in the same run(), with get_time() equal to the time of the
\* action that scheduled it, after every event that was queued for that
\* timestamp and before any event with a later timestamp.
C22_ZeroOffsetSameRun ==
    \A c \in ZeroOffsetInRun :
        /\ h_sched[c].time = h_sched[c].at
        /\ Cardinality(ExecutedAt(c)) <= 1
        /\ h_pc = "done" => ExecutedAt(c) # {}
        /\ \A i \in ExecutedAt(c) :
              /\ i > h_sched[c].after
              /\ h_log[i].now = h_log[h_sched[c].after].now
              /\ \A d \in QueuedWith(c) : \E j \in ExecutedAt(d) : j < i
              /\ \A k \in (h_sched[c].after + 1)..(i - 1) :
                    h_log[k].time <= h_sched[c].time

\* An action scheduled an event with offset 0 while another event was queued
\* for the same timestamp; both were executed, and run() has returned
C22_Witness ==
    /\ h_pc = "done"
    /\ \E c \in ZeroOffsetInRun :
          /\ ExecutedAt(c) # {}
          /\ QueuedWith(c) # {}

\* ------------------------------------------------------------------ C24
\* The schedule calls made by generators
GenCalls == {c \in 1..Len(h_sched) : ~h_sched[c].pre /\ h_sched[c].after = 0}
IsPrefix(s, t) == Len(s) <= Len(t) /\ \A i \in 1..Len(s) : s[i] = t[i]

\* C24: run() calls every registered generator once, in the order of the
\* add_generator calls, before it executes any queued action; the events the
\* generators schedule are processed in that run as the events scheduled
\* before run() are: those in the window once each, at their timestamp, the
\* others never, and all of them in ascending timestamp order.
C24_Generators ==
    /\ IsPrefix(h_gen_log, h_gens)
    /\ h_pc \in {"running", "done"} => h_gen_log = h_gens
    /\ h_pc \in {"idle", "generators"} => h_log = <<>>
    /\ \A c \in GenCalls :
          /\ Cardinality(ExecutedAt(c)) <= 1
          /\ ExecutedAt(c) # {} => InWindow(h_sched[c].time)
          /\ \A i \in ExecutedAt(c) : h_log[i].now = h_sched[c].time
          /\ (h_pc = "done" /\ InWindow(h_sched[c].time)) => ExecutedAt(c) # {}
    /\ \A i, j \in 1..Len(h_log) : i < j => h_log[i].now <= h_log[j].now
    /\ \A i, j \in 1..Len(h_log) :
          (i < j /\ h_log[i].time = h_log[j].time) => h_log[i].cycle < h_log[j].cycle

\* run() has returned after calling two generators: the event one of them
\* scheduled was executed before an event scheduled before run(), and the
\* event of the other was outside the window
C24_Witness ==
    /\ h_pc = "done"
    /\ Len(h_gen_log) = 2
    /\ \E c, d \in GenCalls, e \in PreRun :
          /\ ~InWindow(h_sched[d].time)
          /\ \E i \in ExecutedAt(c), j \in ExecutedAt(e) : i < j /\ c > e

\* ------------------------------------------------------------------ C25
\* C25: schedule_update and schedule_update_at leave the signal as it is when
\* they are called; when the scheduler runs the update the signal is given
\* the value (for a thunk, what it returns at that moment), the signal
\* returns true from on_activate, and its dependent is invoked in that
\* activation and reads the new value.
C25_ScheduledUpdate ==
    /\ u_op.op = "schedule" => u_sig = u_op.before
    /\ \A i \in 1..Len(u_log) :
          LET e == u_log[i] IN
          /\ e.ret
          /\ e.invoked
          /\ e.read = (IF e.closure.thunk THEN e.env ELSE e.closure.value)
    /\ u_op.op = "fire" =>
          /\ u_sig.value = u_log[Len(u_log)].read
          /\ ~u_sig.modified

\* An update with a thunk ran after what the thunk returns had changed, and
\* the update before it had given the signal another value
C25_Witness ==
    /\ u_op.op = "fire"
    /\ LET e == u_log[Len(u_log)] IN
       /\ e.closure.thunk
       /\ e.env # e.closure.value
       /\ u_op.before.value # e.read
       /\ u_op.before.value # NoneValue

\* ------------------------------------------------------------------ C30
\* C30: of two schedulers both constructed without a network argument, an
\* attach or connect made through get_network() of the one leaves the
\* Network of the other (ids, graph and flags) as it was.
C30_SeparateNetworks ==
    s_op.op \in {"attach", "connect"} =>
        \A j \in 1..Len(s_scheds) :
            (j # s_op.by /\ ~s_scheds[j].own /\ ~s_scheds[s_op.by].own) =>
                s_nets[s_scheds[j].network] = s_op.before[s_scheds[j].network]

\* ------------------------------------------------------------------ C31
\* Every event an executed action schedules is strictly later than the time
\* of the action: the only action that schedules is the RepeatingTimer's,
\* with the offset to_millis_offset(interval)
SchedulesLater == t_interval # 0 => to_millis_offset(t_interval) > 0

\* C31: run(), called with finitely many events queued and with actions
\* that schedule only strictly later events, returns; when it has returned
\* the queue holds no event with a timestamp <= end_time.
C31_RunTerminates ==
    /\ [](h_pc = "done" => \A e \in h_queue : e.time_millis > HistEnd)
    /\ []((h_pc = "running" /\ SchedulesLater) => <>(h_pc = "done"))

\* run() has returned after the timer fired twice in the window; the event
\* of its next firing or an event scheduled before run() for a time after
\* the end is left in the queue
C31_Witness ==
    /\ h_pc = "done"
    /\ SchedulesLater
    /\ Len(t_fired) >= 2
    /\ h_queue # {}

====
